---------------------------- MODULE Spec2Model ----------------------------
(***************************************************************************)
(* The notebook "Week 3/Prepare Data.ipynb" as a state machine.            *)
(*                                                                         *)
(* One kernel session runs the eight recipe cells in any order, any number *)
(* of times.  The state is what outlives a cell: the dataset file, numpy's *)
(* print options, the kernel's `array` binding, and the last cell's        *)
(* derived object and standard output.  The scikit-learn calls are         *)
(* operators that compute what the library computes, in exact arithmetic:  *)
(* a number is num / (den * sqrt(rad)), so that min-max scaling, z-scores  *)
(* and unit-length rows are represented without rounding.  The two model   *)
(* fits that cannot be computed exactly (LogisticRegression inside RFE,    *)
(* ExtraTreesClassifier) draw their fitted vector from a small pool; the   *)
(* eigen-decomposition of PCA is kept as a term over the scatter matrix.   *)
(***************************************************************************)
EXTENDS Integers, Sequences, FiniteSets

\* ------------------------------------------------------------------ bounds

\* Number of records in the dataset file (the real file has 768).
NRows == 3

\* ------------------------------------------------------- program constants

\* X = array[:,0:8]: the predictor columns; Y = array[:,8]: the outcome.
NumPredictors == 8
\* names = [... 9 names ...]: columns of the file.
NumColumns == 9
\* set_printoptions(precision=3)
PrintPrecision == 3
\* SelectKBest(score_func=chi2, k=4)
K == 4
\* RFE(model, 3)
n_features_to_select == 3
\* PCA(n_components=3)
n_components == 3
\* print(rescaledX[0:5,:])
HeadRows == 5

Rows == 1..NRows
Cols == 1..NumPredictors

\* ------------------------------------------------------------- arithmetic

Abs(a) == IF a < 0 THEN -a ELSE a

Min2(a, b) == IF a <= b THEN a ELSE b

Max2(a, b) == IF a >= b THEN a ELSE b

RECURSIVE Gcd(_, _)
Gcd(a, b) == IF b = 0 THEN a ELSE Gcd(b, a % b)

RECURSIVE Pow10(_)
Pow10(k) == IF k = 0 THEN 1 ELSE 10 * Pow10(k - 1)

RECURSIVE ISqrtIn(_, _, _)
\* The s with s * s <= t < (s + 1) * (s + 1), given lo * lo <= t < hi * hi.
ISqrtIn(t, lo, hi) ==
  IF hi - lo <= 1 THEN lo
  ELSE LET mid == (lo + hi) \div 2
       IN  IF mid * mid <= t THEN ISqrtIn(t, mid, hi) ELSE ISqrtIn(t, lo, mid)

\* Integer square root of 0 <= t < 2^31 (46341^2 > 2^31).
ISqrt(t) == ISqrtIn(t, 0, Min2(t + 1, 46341))

RECURSIVE SumOver(_, _)
\* Sum of the integers f[i], i in the finite set S.
SumOver(f, S) ==
  IF S = {} THEN 0
  ELSE LET i == CHOOSE x \in S : TRUE IN f[i] + SumOver(f, S \ {i})

RECURSIVE TupleFrom(_, _, _)
\* <<f[i], ..., f[n]>>
TupleFrom(f, i, n) == IF i > n THEN <<>> ELSE <<f[i]>> \o TupleFrom(f, i + 1, n)

\* The function f on 1..n as a tuple: the same value, every entry evaluated
\* once.
Tuple(f, n) == TupleFrom(f, 1, n)

\* A vector over the dataset's rows, and one over the predictor columns.
ByRow(f) == Tuple(f, NRows)

ByCol(f) == Tuple(f, NumPredictors)

\* The largest k with k * k dividing r > 0.
SquarePart(r) ==
  IF r = 1 THEN 1
  ELSE CHOOSE k \in 1..ISqrt(r) :
         /\ r % (k * k) = 0
         /\ \A h \in (k + 1)..ISqrt(r) : r % (h * h) # 0

\* A float64 value, exactly: num / (den * sqrt(rad)), den > 0, rad > 0.
\* Reduced form: rad is square-free (1 whenever the square root is rational)
\* and gcd(num, den) = 1.
Real(n, d, r) ==
  LET k  == SquarePart(r)
      d1 == d * k
      g  == Gcd(Abs(n), d1)
  IN  IF n = 0 THEN [num |-> 0, den |-> 1, rad |-> 1]
      ELSE [num |-> n \div g, den |-> d1 \div g, rad |-> r \div (k * k)]

Rat(n, d) == IF d < 0 THEN Real(-n, -d, 1) ELSE Real(n, d, 1)

Zero == Rat(0, 1)

One == Rat(1, 1)

IsRational(v) == v.rad = 1

RatAdd(a, b) == Rat(a.num * b.den + b.num * a.den, a.den * b.den)

RatSub(a, b) == Rat(a.num * b.den - b.num * a.den, a.den * b.den)

RatMul(a, b) == Rat(a.num * b.num, a.den * b.den)

\* a / b, b # 0.
RatDiv(a, b) == Rat(a.num * b.den, a.den * b.num)

RatLess(a, b) == a.num * b.den < b.num * a.den

RatLeq(a, b) == a.num * b.den <= b.num * a.den

\* np.sqrt of a rational v >= 0, as a Real.
Sqrt(v) == 
  \* sqrt(n/d) = n / sqrt(n*d)
  IF v.num = 0 THEN Zero ELSE Real(v.num, 1, v.num * v.den)

\* a / s for a rational a and s a Real > 0:
\* (an/ad) / (sn / (sd*sqrt(sr))) = an*sd*sqrt(sr)/(ad*sn)
\*                                = an*sd*sr / (ad*sn*sqrt(sr))
DivReal(a, s) == Real(a.num * s.den * s.rad, a.den * s.num, s.rad)

\* The square of a Real: a rational.
Sq(v) == Rat(v.num * v.num, v.den * v.den * v.rad)

RECURSIVE RatSum(_, _)
\* Sum of the rationals f[i], i in S.
RatSum(f, S) ==
  IF S = {} THEN Zero
  ELSE LET i == CHOOSE x \in S : TRUE IN RatAdd(f[i], RatSum(f, S \ {i}))


\* ---------------------------------------------------------------- dataset

\* The records a dataset file is made of: 8 predictor fields (preg, plas,
\* pres, skin, test, mass, pedi, age) and the class field, all numeric and
\* non-negative.  The pool holds an all-zero record, a field that is zero in
\* most records (test), equal fields across records and both classes.
Records ==
  << <<0, 0, 0, 0, 0, 0, 0, 0, 0>>,
     <<1, 3, 2, 0, 0, 2, 1, 3, 1>>,
     <<3, 2, 2, 1, 0, 3, 0, 1, 0>>,
     <<2, 1, 3, 3, 2, 1, 1, 2, 1>> >>

\* The files 'pima-indians-diabetes.data.csv' may be: NRows records, no
\* header row.  Every recipe treats the records alike whatever their order
\* (and all of them are among the first five, which are printed), so the
\* files are taken with their records in the order of the pool.
DataFiles ==
  { [i \in Rows |-> Records[pick[i]]] :
      pick \in {p \in [Rows -> DOMAIN Records] :
                  \A i \in 1..(NRows - 1) : p[i] <= p[i + 1]} }

\* read_csv(filename, names=names).values: every field parsed to a float.
ReadCsv(f) ==
  ByRow([i \in Rows |-> Tuple([j \in 1..NumColumns |-> Rat(f[i][j], 1)], NumColumns)])

\* X = array[:,1:9]
PredictorsOf_shifted(a) ==
  ByRow([i \in Rows |-> ByCol([j \in Cols |-> a[i][j + 1]])])

\* X = array[:,0:8]
PredictorsOf(a) == ByRow([i \in Rows |-> ByCol([j \in Cols |-> a[i][j]])])

\* Y = array[:,8]
OutcomeOf(a) == ByRow([i \in Rows |-> a[i][NumColumns]])

Column(Xm, j) == ByRow([i \in Rows |-> Xm[i][j]])

\* np.min / np.max of a vector of rationals over the index set S.
MinOf(v, S) == CHOOSE m \in {v[i] : i \in S} : \A i \in S : RatLeq(m, v[i])

MaxOf(v, S) == CHOOSE m \in {v[i] : i \in S} : \A i \in S : RatLeq(v[i], m)

\* sklearn.preprocessing.data._handle_zeros_in_scale: a zero scale is 1.
HandleZeroScale(s) == IF s = Zero THEN One ELSE s

\* ----------------------------------------------------------------- Rescale

\* MinMaxScaler.fit with the shift left out (min_ = 0): the values are
\* scaled by the range but not moved to 0.
MinMaxScaler_fit_unshifted(Xm) ==
  ByCol([j \in Cols |->
    LET c          == Column(Xm, j)
        data_min   == MinOf(c, Rows)
        data_max   == MaxOf(c, Rows)
        data_range == RatSub(data_max, data_min)
        scale      == RatDiv(One, HandleZeroScale(data_range))
    IN  [data_min_ |-> data_min, data_max_ |-> data_max,
         scale_ |-> scale, min_ |-> Zero]])

\* MinMaxScaler(feature_range=(0, 1)).fit: per column,
\* scale_ = (1 - 0) / handle_zeros(data_max - data_min),
\* min_ = 0 - data_min * scale_.
MinMaxScaler_fit(Xm) ==
  ByCol([j \in Cols |->
    LET c          == Column(Xm, j)
        data_min   == MinOf(c, Rows)
        data_max   == MaxOf(c, Rows)
        data_range == RatSub(data_max, data_min)
        scale      == RatDiv(One, HandleZeroScale(data_range))
    IN  [data_min_ |-> data_min, data_max_ |-> data_max,
         scale_ |-> scale, min_ |-> RatSub(Zero, RatMul(data_min, scale))]])

\* MinMaxScaler.transform: X *= scale_; X += min_.
MinMaxScaler_transform(sc, Xm) ==
  ByRow([i \in Rows |-> ByCol([j \in Cols |->
     RatAdd(RatMul(Xm[i][j], sc[j].scale_), sc[j].min_)])])

\* rescaledX = scaler.fit_transform(X)
MinMaxScaler_fit_transform(Xm) ==
  MinMaxScaler_transform(MinMaxScaler_fit(Xm), Xm)

\* ------------------------------------------------------------- Standardize

\* StandardScaler.fit with the sample variance (divisor n - 1) in place of
\* the population variance.
StandardScaler_fit_sample(Xm) ==
  ByCol([j \in Cols |->
    LET c    == Column(Xm, j)
        n    == Rat(NRows, 1)
        mean == RatDiv(RatSum(c, Rows), n)
        dev2 == ByRow([i \in Rows |-> Sq(RatSub(c[i], mean))])
        var  == RatDiv(RatSum(dev2, Rows), Rat(NRows - 1, 1))
    IN  [mean_ |-> mean, var_ |-> var, scale_ |-> HandleZeroScale(Sqrt(var))]])

\* StandardScaler().fit: per column mean_, var_ (population variance) and
\* scale_ = handle_zeros(sqrt(var_)).
StandardScaler_fit(Xm) ==
  ByCol([j \in Cols |->
    LET c    == Column(Xm, j)
        n    == Rat(NRows, 1)
        mean == RatDiv(RatSum(c, Rows), n)
        dev2 == ByRow([i \in Rows |-> Sq(RatSub(c[i], mean))])
        var  == RatDiv(RatSum(dev2, Rows), n)
    IN  [mean_ |-> mean, var_ |-> var, scale_ |-> HandleZeroScale(Sqrt(var))]])

\* StandardScaler.transform: X -= mean_; X /= scale_.
StandardScaler_transform(sc, Xm) ==
  ByRow([i \in Rows |-> ByCol([j \in Cols |->
     DivReal(RatSub(Xm[i][j], sc[j].mean_), sc[j].scale_)])])

\* --------------------------------------------------------------- Normalize

\* The norm of a row under norm='l1': the sum of the absolute values.
RowNorm_l1(row) ==
  HandleZeroScale(RatSum(ByCol([j \in Cols |-> Rat(Abs(row[j].num), row[j].den)]), Cols))

\* Normalizer() (norm='l2').transform: norms = sqrt(sum of squares) of each
\* row, a zero norm is 1, X /= norms.
RowNorm(row) ==
  HandleZeroScale(Sqrt(RatSum(ByCol([j \in Cols |-> Sq(row[j])]), Cols)))

Normalizer_transform(Xm) ==
  ByRow([i \in Rows |->
    LET norm == RowNorm(Xm[i])
    IN  ByCol([j \in Cols |-> DivReal(Xm[i][j], norm)])])

\* ---------------------------------------------------------------- Binarize

\* Binarizer(threshold=0.0)
threshold == Zero

\* binarize with cond = X >= threshold.
Binarize_inclusive(x) == IF RatLeq(threshold, x) THEN One ELSE Zero

\* sklearn.preprocessing.binarize: cond = X > threshold; X[cond] = 1;
\* X[not cond] = 0.
Binarize(x) == IF RatLess(threshold, x) THEN One ELSE Zero

Binarizer_transform(Xm) ==
  ByRow([i \in Rows |-> ByCol([j \in Cols |-> Binarize(Xm[i][j])])])

\* ---------------------------------------------------- Univariate selection

\* A score is a float that may be NaN (0/0).
NaN == [nan |-> TRUE, val |-> Zero]

Score(v) == [nan |-> FALSE, val |-> v]

\* LabelBinarizer().fit_transform(y) followed by np.append(1 - Y, Y, axis=1):
\* the rows of the second indicator column.  With two classes it marks the
\* larger label; with a single class it is empty.
PositiveRows(y) ==
  LET labels == {y[i] : i \in Rows}
  IN  IF Cardinality(labels) < 2 THEN {}
      ELSE {i \in Rows : y[i] = MaxOf(y, Rows)}

\* One term of scipy's chisquare: (observed - expected)^2 / expected, NaN
\* when expected is zero (observed is then zero too).
ChiTerm(observed, expected) ==
  IF expected = Zero THEN NaN
  ELSE Score(RatDiv(Sq(RatSub(observed, expected)), expected))

ScoreAdd(a, b) == IF a.nan \/ b.nan THEN NaN ELSE Score(RatAdd(a.val, b.val))

\* sklearn.feature_selection.chi2(X, y): observed = Y.T * X,
\* feature_count = X.sum(axis=0), class_prob = Y.mean(axis=0),
\* expected = class_prob.T * feature_count, one statistic per column.
chi2(Xm, y) ==
  ByCol([j \in Cols |->
    LET c             == Column(Xm, j)
        pos           == PositiveRows(y)
        neg           == Rows \ pos
        feature_count == RatSum(c, Rows)
        prob(S)       == Rat(Cardinality(S), NRows)
        term(S)       == ChiTerm(RatSum(c, S), RatMul(prob(S), feature_count))
    IN  ScoreAdd(term(neg), term(pos))])

\* Order of the scores after _clean_nans (NaN becomes the smallest float).
ScoreLess(a, b) ==
  \/ a.nan /\ ~b.nan
  \/ ~a.nan /\ ~b.nan /\ RatLess(a.val, b.val)

\* Position (from 0) of column j in np.argsort(scores, kind="mergesort"):
\* ascending, equal scores in column order.
ArgsortPosition(scores, j) ==
  Cardinality({i \in Cols : ScoreLess(scores[i], scores[j])})
  + Cardinality({i \in Cols : i < j /\ ~ScoreLess(scores[i], scores[j])
                                     /\ ~ScoreLess(scores[j], scores[i])})

\* The mask of the k lowest scores: mask[argsort(scores)[:k]] = 1.
SelectKBest_mask_lowest(scores) ==
  ByCol([j \in Cols |-> ArgsortPosition(scores, j) < K])

\* SelectKBest._get_support_mask: mask[argsort(scores)[-k:]] = 1.
SelectKBest_mask(scores) ==
  ByCol([j \in Cols |-> ArgsortPosition(scores, j) >= NumPredictors - K])

RECURSIVE MaskedFrom(_, _, _)
\* row[mask] from column j on: the masked entries, in column order.
MaskedFrom(row, mask, j) ==
  IF j > NumPredictors THEN <<>>
  ELSE (IF mask[j] THEN <<row[j]>> ELSE <<>>) \o MaskedFrom(row, mask, j + 1)

\* SelectKBest.transform: X[:, mask].
SelectKBest_transform(mask, Xm) ==
  ByRow([i \in Rows |-> MaskedFrom(Xm[i], mask, 1)])

\* --------------------------------------------- Principal component analysis

\* PCA.fit centres X (X -= mean) and decomposes it.  The decomposition is
\* kept as a term: the scatter matrix it is computed from (the covariance
\* up to the factor n - 1, which changes neither components_ nor
\* explained_variance_ratio_).
PCA_fit(Xm) ==
  LET mean == ByCol([j \in Cols |->
                      RatDiv(RatSum(Column(Xm, j), Rows), Rat(NRows, 1))])
      ctr  == ByRow([i \in Rows |->
                      ByCol([j \in Cols |-> RatSub(Xm[i][j], mean[j])])])
      \* the entries on and above the diagonal; the matrix is symmetric
      upper == ByCol([j \in Cols |-> ByCol([k \in Cols |->
                 IF k < j THEN Zero
                 ELSE RatSum(ByRow([i \in Rows |-> RatMul(ctr[i][j], ctr[i][k])]),
                             Rows)])])
  IN  [n_components_ |-> n_components,
       scatter |-> ByCol([j \in Cols |-> ByCol([k \in Cols |->
                      IF k < j THEN upper[k][j] ELSE upper[j][k]])])]

\* ------------------------------------------------------------- print output

\* Digits after the point numpy needs for v at the given precision: the
\* shortest decimal that names the float, cut at `precision` digits.
DigitsNeeded(v, p) ==
  IF IsRational(v) /\ \E k \in 0..p : (Abs(v.num) * Pow10(k)) % v.den = 0
  THEN CHOOSE k \in 0..p : /\ (Abs(v.num) * Pow10(k)) % v.den = 0
                           /\ \A h \in 0..(k - 1) :
                                (Abs(v.num) * Pow10(h)) % v.den # 0
  ELSE p

\* |v| * 10^d rounded to the nearest integer, a tie to the even digit.
RoundMagnitude(v, d) ==
  IF IsRational(v)
  THEN LET a == Abs(v.num) * Pow10(d)
           q == a \div v.den
           r == a % v.den
       IN  IF 2 * r > v.den \/ (2 * r = v.den /\ q % 2 = 1) THEN q + 1 ELSE q
  ELSE LET v2  == Sq(v)
           a2  == v2.num * Pow10(2 * d)
           t   == a2 \div v2.den
           rem == a2 % v2.den
           s   == ISqrt(t)
       IN  IF t > s * s + s \/ (t = s * s + s /\ 4 * rem >= v2.den)
           THEN s + 1 ELSE s

\* One printed float: its digits at d decimals, signed.
FormatFloat(v, d) == IF v.num < 0 THEN -RoundMagnitude(v, d) ELSE RoundMagnitude(v, d)

\* The decimals an array is printed with: every element is padded to the
\* longest one.
ArrayDecimals(vals, p) ==
  LET need == {DigitsNeeded(v, p) : v \in vals}
  IN  CHOOSE d \in need : \A e \in need : e <= d

\* str() of a 1-d float array under the print options.
FormatVector(vec, p) ==
  LET d == ArrayDecimals({vec[j] : j \in DOMAIN vec}, p)
  IN  [decimals |-> d, digits |-> [j \in DOMAIN vec |-> FormatFloat(vec[j], d)]]

\* str() of a 1-d array of scores, NaN printed as nan.
FormatScores(sc, p) ==
  LET finite == {sc[j].val : j \in {k \in DOMAIN sc : ~sc[k].nan}}
      d      == IF finite = {} THEN 0 ELSE ArrayDecimals(finite, p)
  IN  [decimals |-> d,
       digits |-> [j \in DOMAIN sc |->
                     [nan |-> sc[j].nan,
                      digits |-> IF sc[j].nan THEN 0 ELSE FormatFloat(sc[j].val, d)]]]

\* M[0:5,:] : the first five rows, or all of them.
HeadOf(M) == [i \in 1..Min2(HeadRows, NRows) |-> M[i]]

\* str() of a 2-d float array under the print options.
FormatMatrix(M, p) ==
  LET d == ArrayDecimals({M[i][j] : i \in DOMAIN M, j \in DOMAIN M[1]}, p)
  IN  [decimals |-> d,
       digits |-> [i \in DOMAIN M |-> [j \in DOMAIN M[i] |-> FormatFloat(M[i][j], d)]]]

\* ------------------------------------------------------ library model fits

\* LogisticRegression().fit(X[:, features], y).coef_ ** 2, per feature: the
\* fitted importances RFE ranks by.  The fit is not computed; every
\* iteration draws one of these vectors (they hold equal entries, so that
\* argsort meets ties, and differ in which feature is dropped last).
CoefPool ==
  { <<5, 1, 2, 3, 4, 6, 7, 1>>,
    <<5, 1, 2, 3, 6, 4, 7, 1>> }

\* ExtraTreesClassifier().fit(X, Y).feature_importances_: no random_state is
\* given, so the vector differs from run to run; it sums to 1.
ImportancePool ==
  { [j \in Cols |-> Rat(1, 8)],
    [j \in Cols |-> IF j = 1 THEN Rat(1, 16) ELSE IF j = 2 THEN Rat(3, 16) ELSE Rat(1, 8)],
    [j \in Cols |-> IF j = 1 THEN Rat(1, 3) ELSE IF j = 2 THEN Rat(1, 6) ELSE Rat(1, 12)] }

\* ------------------------------------------------------------------- state

VARIABLES
  file,       \* the records of 'pima-indians-diabetes.data.csv'
  precision,  \* numpy's print option `precision` (process-wide)
  array,      \* the kernel's `array` (X and Y are views of it)
  pc,         \* "idle", or "RFE" while rfe.fit(X, Y) iterates
  last,       \* the recipe cell that ran last
  result,     \* the object that cell derived
  shares,     \* whether that object shares memory with `array`
  printed,    \* that cell's standard output
  support_,   \* RFE.support_ during the fit
  ranking_,   \* RFE.ranking_ during the fit
  eliminated, \* the features RFE removed so far, in order (history)
  memo        \* one earlier run of a recipe, kept for comparison (history)

vars == <<file, precision, array, pc, last, result, shares, printed,
          support_, ranking_, eliminated, memo>>

\* numpy's print options before any set_printoptions call.
DefaultPrintOptions == [precision |-> 8]

Unbound == <<>>

NoMemo ==
  [cell |-> "none", fresh |-> FALSE, file |-> Unbound, result |-> Unbound,
   printed |-> Unbound]

\* The recipes whose runs the history variable keeps.
Remembered == {"Rescale", "Standardize", "Normalize", "Binarize", "Univariate", "PCA"}

\* The transformers are constructed without a `copy` argument: the default
\* copy=True makes transform work on a copy of X.
MinMaxScaler_copy == TRUE

StandardScaler_copy == TRUE

Normalizer_copy == TRUE

\* Binarizer(threshold=0.0, copy=False)
Binarizer_inplace == FALSE

Binarizer_copy == TRUE

\* `array` after a transform of X = array[:,0:8]: untouched when the
\* transform copied, overwritten through the view otherwise.
ArrayAfter(loaded, out, copy) ==
  IF copy THEN loaded
  ELSE [i \in Rows |-> [j \in 1..NumColumns |->
          IF j <= NumPredictors THEN out[i][j] ELSE loaded[i][j]]]

\* The dataset file if the Binarize cell saved binaryX over the predictor
\* fields.
FileAfter_saved(f, cell, out) ==
  IF cell = "Binarize"
  THEN [i \in Rows |-> [j \in 1..NumColumns |->
          IF j <= NumPredictors THEN out[i][j].num ELSE f[i][j]]]
  ELSE f

\* The dataset file after a cell: no cell opens it for writing.
FileAfter(f, cell, out) == f

Init ==
  /\ file \in DataFiles
  /\ precision = DefaultPrintOptions.precision
  /\ array = Unbound
  /\ pc = "idle"
  /\ last = "none"
  /\ result = Unbound
  /\ shares = FALSE
  /\ printed = Unbound
  /\ support_ = [j \in Cols |-> TRUE]
  /\ ranking_ = [j \in Cols |-> 1]
  /\ eliminated = <<>>
  /\ memo = NoMemo

\* What every cell does once its derived object and output are known.
\* The history variable either keeps what it holds or takes this run.
Finish(cell, loaded, out, copy, prec, text) ==
  /\ array' = ArrayAfter(loaded, out, copy)
  /\ result' = out
  /\ shares' = ~copy
  /\ precision' = prec
  /\ printed' = text
  /\ last' = cell
  /\ file' = FileAfter(file, cell, out)
  /\ \/ memo' = memo
     \/ /\ cell \in Remembered
        /\ memo' = [cell |-> cell, fresh |-> (last = "none"), file |-> file,
                    result |-> out, printed |-> text]
  /\ UNCHANGED <<pc, support_, ranking_, eliminated>>

\* Cell "Rescale data (between 0 and 1)".
RescaleCell ==
  /\ pc = "idle"
  /\ LET loaded    == ReadCsv(file)
         X         == PredictorsOf(loaded)
         rescaledX == MinMaxScaler_fit_transform(X)
     IN  Finish("Rescale", loaded, rescaledX, MinMaxScaler_copy, PrintPrecision,
                FormatMatrix(HeadOf(rescaledX), PrintPrecision))

\* Cell "Standardize data (0 mean, 1 stdev)".
StandardizeCell ==
  /\ pc = "idle"
  /\ LET loaded    == ReadCsv(file)
         X         == PredictorsOf(loaded)
         scaler    == StandardScaler_fit(X)
         rescaledX == StandardScaler_transform(scaler, X)
     IN  Finish("Standardize", loaded, rescaledX, StandardScaler_copy, PrintPrecision,
                FormatMatrix(HeadOf(rescaledX), PrintPrecision))

\* Cell "Normalize data (length of 1)".
NormalizeCell ==
  /\ pc = "idle"
  /\ LET loaded      == ReadCsv(file)
         X           == PredictorsOf(loaded)
         normalizedX == Normalizer_transform(X)
     IN  Finish("Normalize", loaded, normalizedX, Normalizer_copy, PrintPrecision,
                FormatMatrix(HeadOf(normalizedX), PrintPrecision))

\* Cell "binarization".
BinarizeCell ==
  /\ pc = "idle"
  /\ LET loaded  == ReadCsv(file)
         X       == PredictorsOf(loaded)
         binaryX == Binarizer_transform(X)
     IN  Finish("Binarize", loaded, binaryX, Binarizer_copy, PrintPrecision,
                FormatMatrix(HeadOf(binaryX), PrintPrecision))

\* Cell "Feature Extraction with Univariate Statistical Tests".
UnivariateCell ==
  /\ pc = "idle"
  /\ LET loaded   == ReadCsv(file)
         X        == PredictorsOf(loaded)
         Y        == OutcomeOf(loaded)
         scores   == chi2(X, Y)
         mask     == SelectKBest_mask(scores)
         features == SelectKBest_transform(mask, X)
     IN  Finish("Univariate", loaded,
                [scores_ |-> scores, support |-> mask, features |-> features],
                TRUE, PrintPrecision,
                [scores_ |-> FormatScores(scores, PrintPrecision),
                 features |-> FormatMatrix(HeadOf(features), PrintPrecision)])

\* Cell "Feature Extraction with PCA": pca.fit(X), then the two prints, under
\* whatever print options the session holds.
PCACell ==
  /\ pc = "idle"
  /\ LET loaded == ReadCsv(file)
         X      == PredictorsOf(loaded)
         fit    == PCA_fit(X)
     IN  Finish("PCA", loaded, fit, TRUE, precision,
                [explained_variance_ratio_ |->
                   [decimals |-> precision, shape |-> <<fit.n_components_>>,
                    of |-> fit.scatter],
                 matrix |->
                   [attribute |-> "components_", decimals |-> precision,
                    shape |-> <<fit.n_components_, NumPredictors>>,
                    of |-> fit.scatter]])

\* Cell "Feature Importance with Extra Trees Classifier".
FeatureImportanceCell ==
  /\ pc = "idle"
  /\ \E imp \in ImportancePool :
       Finish("FeatureImportance", ReadCsv(file), [feature_importances_ |-> imp],
              TRUE, precision, FormatVector(imp, precision))

\* ---------------------------------------------- Recursive feature elimination

\* np.sum(support_)
Remaining(support) == {j \in Cols : support[j]}

\* features[ranks][-threshold:]: the remaining feature whose importance
\* sorts last.
LeastImportant_sortedLast(coef, support) ==
  {j \in Remaining(support) : \A k \in Remaining(support) : coef[j] >= coef[k]}

\* features[ranks][:threshold] with step = 1: the remaining feature whose
\* importance sorts first.  np.argsort's default sort is not stable, so among
\* equal importances any may come first.
LeastImportant(coef, support) ==
  {j \in Remaining(support) : \A k \in Remaining(support) : coef[j] <= coef[k]}

\* ranking_[np.logical_not(support_)] = 2: assigned, not incremented.
RankingAfter_assigned(ranking, support) ==
  [k \in Cols |-> IF support[k] THEN ranking[k] ELSE 2]

\* ranking_[np.logical_not(support_)] += 1
RankingAfter(ranking, support) ==
  [k \in Cols |-> IF support[k] THEN ranking[k] ELSE ranking[k] + 1]

\* Cell "Feature Extraction with RFE", up to the start of rfe.fit(X, Y):
\* the dataset is loaded, support_ is all True and ranking_ all 1.
RFEBegin ==
  /\ pc = "idle"
  /\ pc' = "RFE"
  /\ last' = "RFE"
  /\ array' = ReadCsv(file)
  /\ result' = Unbound
  /\ printed' = Unbound
  /\ shares' = FALSE
  /\ support_' = [j \in Cols |-> TRUE]
  /\ ranking_' = [j \in Cols |-> 1]
  /\ eliminated' = <<>>
  /\ UNCHANGED <<file, precision, memo>>

\* One iteration of RFE's loop: fit the estimator on the remaining features,
\* drop the least important one, push back the rank of every dropped feature.
RFEEliminate ==
  /\ pc = "RFE"
  /\ Cardinality(Remaining(support_)) > n_features_to_select
  /\ \E coef \in CoefPool :
       \E j \in LeastImportant(coef, support_) :
         LET support == [support_ EXCEPT ![j] = FALSE]
         IN  /\ support_' = support
             /\ ranking_' = RankingAfter(ranking_, support)
             /\ eliminated' = Append(eliminated, j)
  /\ UNCHANGED <<file, precision, array, pc, last, result, shares, printed,
                 memo>>

\* The loop has ended: n_features_ = support_.sum(), and the three prints
\* ("%d" and "%s" of an integer, a boolean array and an integer array).
RFEFinish ==
  /\ pc = "RFE"
  /\ Cardinality(Remaining(support_)) <= n_features_to_select
  /\ pc' = "idle"
  /\ result' = [n_features_ |-> Cardinality(Remaining(support_)),
                support_ |-> support_, ranking_ |-> ranking_,
                order |-> eliminated]
  /\ printed' = [n_features_ |-> Cardinality(Remaining(support_)),
                 support_ |-> support_, ranking_ |-> ranking_]
  /\ support_' = [j \in Cols |-> TRUE]
  /\ ranking_' = [j \in Cols |-> 1]
  /\ eliminated' = <<>>
  /\ file' = FileAfter(file, "RFE", result')
  /\ UNCHANGED <<precision, array, last, shares, memo>>

\* ----------------------------------------------------------- specification

\* The kernel runs one cell at a time, in any order, any number of times.
Next ==
  \/ RescaleCell
  \/ StandardizeCell
  \/ NormalizeCell
  \/ BinarizeCell
  \/ UnivariateCell
  \/ RFEBegin
  \/ RFEEliminate
  \/ RFEFinish
  \/ PCACell
  \/ FeatureImportanceCell

Spec == Init /\ [][Next]_vars

\* The dataset files that hold the fields of f, but for the class field of
\* one record, which holds the other class.
OutcomeVariants(f) ==
  { [f EXCEPT ![i][NumColumns] = 1 - f[i][NumColumns]] : i \in Rows }

\* After a recorded run the dataset file is replaced by one that differs
\* from it in the class column only.  The file first given is replaced once.
ReplaceOutcomes ==
  /\ pc = "idle"
  /\ memo.cell # "none"
  /\ file \in DataFiles
  /\ file' \in OutcomeVariants(file)
  /\ UNCHANGED <<precision, array, pc, last, result, shares, printed,
                 support_, ranking_, eliminated, memo>>

\* A session of the five recipes that fit on X alone, run on a dataset and
\* on a second one with other outcomes.
TwoDatasetsNext ==
  \/ RescaleCell
  \/ StandardizeCell
  \/ NormalizeCell
  \/ BinarizeCell
  \/ PCACell
  \/ ReplaceOutcomes

TwoDatasetsSpec == Init /\ [][TwoDatasetsNext]_vars

\* A session in which only the RFE cell is run, any number of times.
RFENext ==
  \/ RFEBegin
  \/ RFEEliminate
  \/ RFEFinish

\* The kernel runs a cell to its end: once rfe.fit(X, Y) has begun, the loop
\* takes its next iteration, and the prints follow the loop.
RFESpec ==
  Init /\ [][RFENext]_vars /\ WF_eliminated(RFEEliminate) /\ WF_pc(RFEFinish)

\* ------------------------------------------------------------------ claims

\* The cell `cell` has run to its end and nothing has run since.
Ran(cell) == pc = "idle" /\ last = cell

\* The predictor field j of record i, as the file holds it.
Field(i, j) == file[i][j]

ColumnMin(j) == CHOOSE m \in {Field(i, j) : i \in Rows} : \A i \in Rows : m <= Field(i, j)

ColumnMax(j) == CHOOSE m \in {Field(i, j) : i \in Rows} : \A i \in Rows : m >= Field(i, j)

IsConstantColumn(j) == ColumnMin(j) = ColumnMax(j)

IsZeroRow(i) == \A j \in Cols : Field(i, j) = 0

\* C1: after the Rescale cell every value of rescaledX lies in [0,1]; in a
\* column that is not constant the value of x is (x - min) / (max - min),
\* so the column's minimum becomes 0 and its maximum 1.
C1_RescaleIsMinMax ==
  Ran("Rescale") =>
    \A j \in Cols : \A i \in Rows :
      LET v  == result[i][j]
          x  == Field(i, j)
          mn == ColumnMin(j)
          mx == ColumnMax(j)
      IN  /\ IsRational(v)
          /\ 0 <= v.num /\ v.num <= v.den
          /\ x = mn => v.num = 0
          /\ ~IsConstantColumn(j) =>
               /\ v.num * (mx - mn) = (x - mn) * v.den
               /\ x = mx => (v.num = 1 /\ v.den = 1)

\* The Rescale cell has run on a file with a constant column and with a
\* column whose values map to 0, to 1 and strictly between.
C1_Witness ==
  /\ Ran("Rescale")
  /\ \E j \in Cols : IsConstantColumn(j)
  /\ \E j \in Cols :
       /\ \E i \in Rows : result[i][j] = Zero
       /\ \E i \in Rows : result[i][j] = One
       /\ \E i \in Rows : 0 < result[i][j].num /\ result[i][j].num < result[i][j].den

\* C2: after the Binarize cell binaryX has the shape of X, holds only 0 and
\* 1, and the value of x is 1 if x > 0 and 0 if x <= 0.
C2_BinarizeThreshold ==
  Ran("Binarize") =>
    /\ DOMAIN result = Rows
    /\ \A i \in Rows :
         /\ DOMAIN result[i] = Cols
         /\ \A j \in Cols :
              /\ result[i][j] \in {Zero, One}
              /\ Field(i, j) > 0 => result[i][j] = One
              /\ Field(i, j) <= 0 => result[i][j] = Zero

\* The Binarize cell has run on a file that holds a value equal to the
\* threshold and a value above it.
C2_Witness ==
  /\ Ran("Binarize")
  /\ \E i \in Rows, j \in Cols : Field(i, j) = 0 /\ result[i][j] = Zero
  /\ \E i \in Rows, j \in Cols : Field(i, j) > 0 /\ result[i][j] = One

\* a is a higher score than b; NaN, which the selector treats as the lowest
\* float, is higher than nothing.
ScoreHigher(a, b) ==
  /\ ~a.nan
  /\ b.nan \/ a.val.num * b.val.den > b.val.num * a.val.den

RECURSIVE Ascending(_)
\* The elements of a set of integers in increasing order.
Ascending(S) ==
  IF S = {} THEN <<>>
  ELSE LET m == CHOOSE x \in S : \A y \in S : x <= y
       IN  <<m>> \o Ascending(S \ {m})

\* C3: after the Univariate cell there are 8 scores, one per predictor
\* column, and the reduced matrix is made of exactly 4 columns of X: no
\* column left out has a higher score than a column kept, the kept columns are
\* in their original order and hold the values of X.
C3_SelectKBest ==
  Ran("Univariate") =>
    /\ DOMAIN result.scores_ = Cols
    /\ \E S \in SUBSET Cols :
         /\ Cardinality(S) = K
         /\ \A s \in S : \A u \in Cols \ S :
              ~ScoreHigher(result.scores_[u], result.scores_[s])
         /\ \A i \in Rows :
              /\ Len(result.features[i]) = K
              /\ \A k \in 1..K :
                   result.features[i][k] = Rat(Field(i, Ascending(S)[k]), 1)

\* The Univariate cell has run on a file where a kept column scores
\* strictly higher than a column left out and where a NaN score occurs.
C3_Witness ==
  /\ Ran("Univariate")
  /\ \E s \in Cols, u \in Cols :
       /\ result.support[s] /\ ~result.support[u]
       /\ ~result.scores_[u].nan
       /\ ScoreHigher(result.scores_[s], result.scores_[u])
  /\ \E j \in Cols : result.scores_[j].nan

\* C4: after the RFE cell exactly 3 features are True in support_ and
\* n_features_ is 3; a feature is True in support_ iff its ranking is 1; the
\* 5 eliminated features have the rankings 2..6, the one eliminated first 6
\* and the one eliminated last 2.
C4_RFESupportAndRanking ==
  Ran("RFE") =>
    /\ result.n_features_ = n_features_to_select
    /\ Cardinality({j \in Cols : result.support_[j]}) = 3
    /\ \A j \in Cols : result.support_[j] <=> result.ranking_[j] = 1
    /\ Len(result.order) = 5
    /\ \A k \in 1..Len(result.order) :
         /\ ~result.support_[result.order[k]]
         /\ result.ranking_[result.order[k]] = 7 - k
    /\ {result.ranking_[j] : j \in {c \in Cols : ~result.support_[c]}} = 2..6
    /\ Cardinality({c \in Cols : ~result.support_[c]}) = 5

\* The RFE cell has run to its end, and a tie between two importances was
\* resolved towards the later feature.
C4_Witness ==
  /\ Ran("RFE")
  /\ Len(result.order) = 5
  /\ result.order[1] = 8

\* C5: the PCA cell's output is the 3 explained-variance ratios and the
\* reduced matrix: the dataset's rows projected onto the 3 components, 3
\* columns per row.
C5_PCAOutputIsReducedMatrix ==
  Ran("PCA") =>
    /\ printed.explained_variance_ratio_.shape = <<n_components>>
    /\ printed.matrix.attribute = "transform(X)"
    /\ printed.matrix.shape[2] = n_components

\* C6: a recipe prints in any session what it prints when it is the first
\* cell run in a fresh session.
C6_OutputAsWhenRunAlone ==
  (pc = "idle" /\ memo.fresh /\ memo.cell = last) => printed = memo.printed

\* Every completed cell leaves `array` as it was read.
ArrayAsRead ==
  \A i \in Rows : \A j \in 1..NumColumns : array[i][j] = Rat(file[i][j], 1)

\* C7: no step writes the dataset file, and at the end of every recipe
\* `array` (so X and Y) holds the values read from the file and the
\* derived object is a copy that shares no memory with it.
C7_DatasetNeverMutated ==
  [][/\ file' = file
     /\ (pc' = "idle" /\ last' # "none") => (ArrayAsRead' /\ ~shares')]_vars

\* The Binarize cell has run: binaryX differs from X, which is still as
\* read.
C7_Witness ==
  /\ Ran("Binarize")
  /\ ArrayAsRead
  /\ ~shares
  /\ \E i \in Rows, j \in Cols : result[i][j] # array[i][j]

\* C8: after the Normalize cell every row of normalizedX that comes from a
\* row that is not all zeros has Euclidean length 1, and every row is the
\* input row times a positive scalar (which the row itself determines).
C8_NormalizeUnitRows ==
  Ran("Normalize") =>
    \A i \in Rows :
      LET sumsq == SumOver([j \in Cols |-> Field(i, j) * Field(i, j)], Cols)
      IN  /\ ~IsZeroRow(i) =>
               RatSum([j \in Cols |-> Sq(result[i][j])], Cols) = One
          /\ \E c2 \in {IF IsZeroRow(i) THEN One ELSE Rat(1, sumsq)} :
               \A j \in Cols :
                 /\ Sq(result[i][j]) = RatMul(c2, Rat(Field(i, j) * Field(i, j), 1))
                 /\ (result[i][j].num > 0) <=> (Field(i, j) > 0)
                 /\ result[i][j].num >= 0

\* The Normalize cell has run on a file with an all-zero row and a row whose
\* length is irrational.
C8_Witness ==
  /\ Ran("Normalize")
  /\ \E i \in Rows : IsZeroRow(i)
  /\ \E i \in Rows, j \in Cols : result[i][j].rad > 1

\* The sum of a column of Reals is zero: the square roots of distinct
\* square-free numbers are independent over the rationals, so the sum is
\* zero iff the coefficients of each root sum to zero.
SumsToZero(col) ==
  \A r \in {col[i].rad : i \in Rows} :
    RatSum([i \in Rows |-> IF col[i].rad = r THEN Rat(col[i].num, col[i].den) ELSE Zero],
           Rows) = Zero

\* The population variance of column j of the file.
ColumnVariance(j) ==
  LET S == SumOver([i \in Rows |-> Field(i, j)], Rows)
  IN  Rat(SumOver([i \in Rows |-> (NRows * Field(i, j) - S) * (NRows * Field(i, j) - S)],
                  Rows),
          NRows * NRows * NRows)

\* Column j of rescaledX has mean 0 and standard deviation 1, every value
\* being (x - mean) / standard deviation.
IsStandardized(j) ==
  LET col == [i \in Rows |-> result[i][j]]
      S   == SumOver([i \in Rows |-> Field(i, j)], Rows)
  IN  /\ SumsToZero(col)
      /\ RatSum([i \in Rows |-> Sq(col[i])], Rows) = Rat(NRows, 1)
      /\ \A i \in Rows :
           /\ RatMul(Sq(col[i]), ColumnVariance(j))
                = Sq(Rat(NRows * Field(i, j) - S, NRows))
           /\ (col[i].num > 0) <=> (NRows * Field(i, j) - S > 0)
           /\ (col[i].num < 0) <=> (NRows * Field(i, j) - S < 0)

\* C9 as stated: after the Standardize cell every predictor column of
\* rescaledX has mean 0 and standard deviation 1.
C9_EveryColumnStandardized ==
  Ran("Standardize") => \A j \in Cols : IsStandardized(j)

\* C9: after the Standardize cell every predictor column that is not
\* constant has mean 0 and standard deviation 1, each value being
\* (x - mean) / standard deviation; a constant column becomes all zeros.
C9_NonConstantColumnsStandardized ==
  Ran("Standardize") =>
    \A j \in Cols :
      IF IsConstantColumn(j)
      THEN \A i \in Rows : result[i][j] = Zero
      ELSE IsStandardized(j)

\* The Standardize cell has run on a file with a constant column and a
\* column that is not constant.
C9_Witness ==
  /\ Ran("Standardize")
  /\ \E j \in Cols : IsConstantColumn(j)
  /\ \E j \in Cols : ~IsConstantColumn(j) /\ \E i \in Rows : result[i][j].rad > 1

\* The recipes that draw nothing at random.
Deterministic ==
  {"Rescale", "Standardize", "Normalize", "Binarize", "Univariate", "PCA"}

C11_Step ==
  /\ (pc = "idle" /\ pc' = "RFE") =>
        /\ Remaining(support_') = Cols
        /\ eliminated' = <<>>
  /\ (pc = "RFE" /\ pc' = "RFE") =>
        /\ \A k \in Cols : support_'[k] => support_[k]
        /\ \E j \in Remaining(support_) :
             /\ Remaining(support_') = Remaining(support_) \ {j}
             /\ eliminated' = Append(eliminated, j)
             /\ \E coef \in CoefPool :
                  \A k \in Remaining(support_) : coef[j] <= coef[k]
  /\ (pc = "RFE" /\ pc' = "idle") =>
        /\ Len(eliminated) = 5
        /\ Cardinality(Remaining(support_)) = 3
        /\ result'.support_ = support_
        /\ result'.order = eliminated

\* C11: recursive elimination as a process.  It starts with all 8 predictor
\* features remaining; each iteration refits the wrapped model on the
\* remaining features and removes exactly one feature, the least useful of
\* those remaining; a removed feature is never re-added; and the process
\* terminates after exactly 5 iterations with exactly 3 features remaining.
C11_RFEProcess ==
  /\ [][C11_Step]_<<pc, support_, eliminated>>
  /\ (pc = "RFE") ~> (pc = "idle" /\ last = "RFE" /\ Len(result.order) = 5)

\* The fifth iteration has just removed a feature: 3 features remain and the
\* loop is about to be left.
C11_Witness ==
  /\ pc = "RFE"
  /\ Len(eliminated) = 5
  /\ Cardinality(Remaining(support_)) = 3

\* The recipes that split Y off and never pass it on.
OutcomeBlind == {"Rescale", "Standardize", "Normalize", "Binarize", "PCA"}

\* f and g hold the same 8 predictor fields in every record and differ in
\* the class field of some record.
DifferOnlyInOutcome(f, g) ==
  /\ \A i \in Rows : \A j \in Cols : f[i][j] = g[i][j]
  /\ \E i \in Rows : f[i][NumColumns] # g[i][NumColumns]

\* C12: the outcome column Y is never used by the Rescale, Standardize,
\* Normalize, Binarize and PCA recipes.  A run of one of them on a dataset
\* that differs from the dataset of an earlier run of the same recipe in the
\* outcome column only derives the same object and prints the same text
\* (for PCA, which prints under the session's precision, when both runs
\* printed under the default precision).
C12_OutcomeUnused ==
  (/\ pc = "idle"
   /\ last \in OutcomeBlind
   /\ memo.cell = last
   /\ DifferOnlyInOutcome(memo.file, file)) =>
     /\ result = memo.result
     /\ (last # "PCA" \/ (memo.fresh /\ precision = DefaultPrintOptions.precision))
          => printed = memo.printed

\* Standardize ran on one dataset, the outcomes were replaced, and it ran
\* again on the new dataset.
C12_Witness ==
  /\ Ran("Standardize")
  /\ memo.cell = "Standardize"
  /\ DifferOnlyInOutcome(memo.file, file)
  /\ array = ReadCsv(file)
  /\ result = memo.result

====
